---- MODULE Spec2Model ----
(***************************************************************************)
(* Model of setup_stack.py, the generator of the Modular CPU AI Stack      *)
(* v0.1.6 layout: logger, safe_write, make_executable, create_zip, main.   *)
(*                                                                         *)
(* Text is a sequence of characters; "\n" is the newline, " " and "\t" are *)
(* the blanks textwrap.dedent knows, every other element is an ordinary    *)
(* character.  Timestamps of log lines are left out of the log records.    *)
(* Directories are taken to be listable (os.walk and glob see every entry).*)
(***************************************************************************)
EXTENDS Integers, Sequences, FiniteSets, TLC

\* ---------------------------------------------------------------- bounds
MaxRuns == 2
MaxFaults == 2
MaxLen == 5

\* ------------------------------------------------------------- constants
VERSION == "0.1.6"
STACK_DIR_NAME == "modular_cpu_ai_stack_v0_1_6"

\* ------------------------------------------------------------------ text
NL == "\n"
Blanks == {" ", "\t"}
Alphabet == {" ", "\t", "a", NL}

Strings(n) == UNION {[1..k -> Alphabet] : k \in 0..n}

IsBlankLine(line) == \A i \in 1..Len(line) : line[i] \in Blanks

StartsWith(s, p) == Len(p) <= Len(s) /\ SubSeq(s, 1, Len(p)) = p

DropN(s, n) == SubSeq(s, n + 1, Len(s))

\* str.split("\n"): the lines of a text, without their newlines
RECURSIVE Split(_)
Split(text) ==
    IF \A i \in 1..Len(text) : text[i] # NL
    THEN <<text>>
    ELSE LET k == CHOOSE i \in 1..Len(text) :
                      text[i] = NL /\ \A j \in 1..(i - 1) : text[j] # NL
         IN <<SubSeq(text, 1, k - 1)>> \o Split(DropN(text, k))

\* "\n".join(lines)
RECURSIVE Join(_)
Join(lines) ==
    IF Len(lines) = 0 THEN <<>>
    ELSE IF Len(lines) = 1 THEN lines[1]
    ELSE lines[1] \o <<NL>> \o Join(Tail(lines))

\* _whitespace_only_re.sub('', text): a line of blanks only becomes empty
NormalizeBlank(lines) ==
    [i \in 1..Len(lines) |-> IF IsBlankLine(lines[i]) THEN <<>> ELSE lines[i]]

\* the group of _leading_whitespace_re on one line: its run of leading blanks
Indent(line) ==
    LET n == CHOOSE k \in 0..Len(line) :
                 /\ \A i \in 1..k : line[i] \in Blanks
                 /\ (k < Len(line) => line[k + 1] \notin Blanks)
    IN SubSeq(line, 1, n)

\* _leading_whitespace_re.findall(text): the indents of the non-blank lines
Indents(lines) ==
    LET nb == SelectSeq(lines, LAMBDA l : ~IsBlankLine(l))
    IN [i \in 1..Len(nb) |-> Indent(nb[i])]

\* one turn of the margin loop of textwrap.dedent
NarrowMargin(margin, indent) ==
    IF StartsWith(indent, margin) THEN margin
    ELSE IF StartsWith(margin, indent) THEN indent
    ELSE LET i == CHOOSE k \in 1..Len(margin) :
                      /\ margin[k] # indent[k]
                      /\ \A j \in 1..(k - 1) : margin[j] = indent[j]
         IN SubSeq(margin, 1, i - 1)

RECURSIVE FoldMargin(_, _)
FoldMargin(indents, margin) ==
    IF Len(indents) = 0 THEN margin
    ELSE FoldMargin(Tail(indents), NarrowMargin(margin, Head(indents)))

\* margin of textwrap.dedent; <<>> stands for both None and ''
Margin(lines) ==
    LET ind == Indents(lines)
    IN IF Len(ind) = 0 THEN <<>> ELSE FoldMargin(Tail(ind), Head(ind))

\* re.sub(r'(?m)^' + margin, '', text)
StripMargin(lines, margin) ==
    [i \in 1..Len(lines) |->
        IF StartsWith(lines[i], margin) THEN DropN(lines[i], Len(margin))
        ELSE lines[i]]

DedentKeepMargin(text) == Join(NormalizeBlank(Split(text)))

\* textwrap.dedent(text)
Dedent(text) ==
    LET lines == NormalizeBlank(Split(text))
    IN Join(StripMargin(lines, Margin(lines)))

\* str.lstrip("\n")
RECURSIVE LStripNL(_)
LStripNL(text) ==
    IF Len(text) > 0 /\ Head(text) = NL THEN LStripNL(Tail(text)) ELSE text

\* the text safe_write hands to write_text
WrittenText(content) == LStripNL(Dedent(content))


\* ----------------------------------------------------------------- paths
\* a path below the stack root: <dir>/<stem>.<ext>, dir "" for the root itself
P(dir, stem, ext) == [dir |-> dir, stem |-> stem, ext |-> ext]

\* the (path, content) pairs of create_stack_files, in call order
Catalog ==
    << P("scripts", "common", "sh"),
       P("scripts", "install_llm", "sh"),
       P("scripts", "install_image_gen", "sh"),
       P("scripts", "install_tts", "sh"),
       P("scripts", "download_ollama_models", "sh"),
       P("scripts", "health_check", "sh"),
       P("scripts", "clean_stack", "sh"),
       P("scripts", "setup_oauth", "sh"),
       P("", "install", "sh"),
       P("", "docker-compose", "yml"),
       P("", "README", "md"),
       P("", "CHANGELOG", "md"),
       P("", "session_restart_prompt_v0_1_6", "md") >>

CatalogPaths == {Catalog[i] : i \in 1..Len(Catalog)}

InstallSh == P("", "install", "sh")

\* files a pre-existing stack root may already hold
ExtraSh == P("scripts", "extra", "sh")
ExtraTxt == P("", "notes", "txt")

\* directory listing order of the paths the model knows
PathOrder == Catalog \o <<ExtraSh, ExtraTxt>>

\* what a log line names besides a file: the stack root, the archive, nothing
RootRef == P("", "", "")
ZipRef == P("..", STACK_DIR_NAME, "zip")
NoRef == P("-", "", "")

\* the literal of an entry: a newline, the indented body, the indented
\* closing line; the stem stands for the entry's own characters
Body(p) == <<NL, " ", " ", p.stem, NL, " ", " ">>

\* ------------------------------------------------------------ filesystem
DefaultMode == {"r", "w"}
ExecBits == {"xu", "xg", "xo"}

NoFiles == [q \in {} |-> [content |-> <<>>, mode |-> {}]]
NoEntries == [a \in {} |-> <<>>]

\* path.parent.mkdir(parents=True, exist_ok=True)
ParentDirs(path) ==
    IF path.dir = "scripts" THEN {"root", "scripts"} ELSE {"root"}

WriteFileAppend(fs, path, text) ==
    [q \in DOMAIN fs \cup {path} |->
        IF q = path
        THEN IF path \in DOMAIN fs
             THEN [fs[path] EXCEPT !.content = @ \o text]
             ELSE [content |-> text, mode |-> DefaultMode]
        ELSE fs[q]]

\* path.write_text(text): creates the file or replaces its content
WriteFile(fs, path, text) ==
    [q \in DOMAIN fs \cup {path} |->
        IF q = path
        THEN [content |-> text,
              mode |-> IF path \in DOMAIN fs THEN fs[path].mode
                       ELSE DefaultMode]
        ELSE fs[q]]

ChmodKeep(mode) == mode

\* mode | S_IXUSR | S_IXGRP | S_IXOTH
ChmodX(mode) == mode \cup ExecBits

SetMode(fs, path) ==
    [q \in DOMAIN fs |->
        IF q = path THEN [fs[q] EXCEPT !.mode = ChmodX(fs[q].mode)]
        ELSE fs[q]]

GlobMatchAll(p) == TRUE

\* scripts_dir.glob("*.sh")
GlobMatch(p) == p.dir = "scripts" /\ p.ext = "sh"

Reverse(s) == [i \in 1..Len(s) |-> s[Len(s) + 1 - i]]

\* the matches of the glob; the directory is listed in one order or the other
GlobList(fs, backwards) ==
    LET found == SelectSeq(PathOrder,
                           LAMBDA p : p \in DOMAIN fs /\ GlobMatch(p))
    IN IF backwards THEN Reverse(found) ELSE found

ArcNameInRoot(p) == <<p>>

\* full.relative_to(ROOT_DIR)
ArcName(p) == <<STACK_DIR_NAME, p>>

\* the entries zf.write stores while os.walk visits the stack root
ZipEntries(fs) ==
    [a \in {ArcName(p) : p \in DOMAIN fs} |->
        LET p == CHOOSE q \in DOMAIN fs : ArcName(q) = a IN fs[p].content]

\* ------------------------------------------------------------------ logs
InfoLineNoRef(msg, ref) == [level |-> "INFO", msg |-> msg, ref |-> NoRef]

InfoLine(msg, ref) == [level |-> "INFO", msg |-> msg, ref |-> ref]

ErrorLineNoRef(msg, ref) == [level |-> "ERROR", msg |-> msg, ref |-> NoRef]

ErrorLine(msg, ref) == [level |-> "ERROR", msg |-> msg, ref |-> ref]

AppendLogTruncating(log, line) == <<line>>

\* _append_log: open(path, "a") and write the line
AppendLog(log, line) == Append(log, line)

ExitOnRaiseZero == "zero"

\* an exception that leaves main ends the process with a non-zero status
ExitOnRaise == "nonzero"

\* main returns: the process ends with status zero
ExitOnReturn == "zero"

PropagateSwallowed(step) == IF step \in {1, 2} THEN "exited" ELSE "mklogs"

\* where a raised exception goes: steps 1 and 2 run outside the try of main
Propagate(step) == IF step \in {1, 2} THEN "exited" ELSE "except"

\* ----------------------------------------------------------------- state
VARIABLES
    catalogBody,  \* content literal of each catalog entry
    dirs,         \* directories that exist: "root", "scripts", "logs"
    files,        \* files below the stack root: path -> [content, mode]
    zip,          \* the archive next to the stack root
    actionsLog,   \* create_stack_actions.log
    errorsLog,    \* create_stack_errors.log
    printed,      \* the "Done." summary was printed in this run
    pc,           \* position of main
    wi,           \* index of the next safe_write call
    chmodq,       \* paths still to pass to make_executable
    status,       \* "running", or the exit status "zero" / "nonzero"
    run,          \* number of the invocation
    faults,       \* failures of filesystem operations so far
    startA,       \* length of the actions log when the run started
    startE,       \* length of the errors log when the run started
    written,      \* paths whose content this run has replaced
    returned,     \* paths whose safe_write call returned in this run
    chmodded,     \* paths whose mode this run has set
    failedStep,   \* step of main that raised in this run, 0 if none
    failedPath,   \* the path the failed call was given
    steps,        \* steps of main this run has entered
    lostE,        \* log_error calls of this run whose append failed
    exc,          \* the exception on its way up: "none", "op" or "log"
    errAfterLog,  \* log_error calls of this run made on a logging failure
    fresh,        \* the run started without stack root, logs and archive
    prev          \* what the previous run left behind

vars == <<catalogBody, dirs, files, zip, actionsLog, errorsLog, printed, pc,
          wi, chmodq, status, run, faults, startA, startE, written, returned,
          chmodded, failedStep, failedPath, steps, lostE, exc, errAfterLog,
          fresh, prev>>

fsVars == <<dirs, files, zip>>
ghostVars == <<written, returned, chmodded>>

NoZip == [state |-> "absent", entries |-> NoEntries]

NoPrev == [ok |-> FALSE, files |-> NoFiles, dirs |-> {}, lenA |-> 0, lenE |-> 0]

ExtraFile == [content |-> <<"x">>, mode |-> DefaultMode]

\* the stack root before the first invocation: absent, or left by earlier use
PreStates ==
    { [dirs |-> {}, files |-> NoFiles],
      [dirs |-> {"root"}, files |-> NoFiles],
      [dirs |-> {"root", "scripts"},
       files |-> [q \in {ExtraSh, ExtraTxt} |-> ExtraFile]] }

InitRun(pre) ==
    /\ dirs = pre.dirs
    /\ files = pre.files
    /\ zip = NoZip
    /\ actionsLog = <<>>
    /\ errorsLog = <<>>
    /\ printed = FALSE
    /\ pc = "start"
    /\ wi = 1
    /\ chmodq = <<>>
    /\ status = "running"
    /\ run = 1
    /\ faults = 0
    /\ startA = 0
    /\ startE = 0
    /\ written = {}
    /\ returned = {}
    /\ chmodded = {}
    /\ failedStep = 0
    /\ failedPath = NoRef
    /\ steps = {}
    /\ lostE = 0
    /\ exc = "none"
    /\ errAfterLog = 0
    /\ fresh = (pre.dirs = {})
    /\ prev = NoPrev

Init ==
    /\ catalogBody = [i \in 1..Len(Catalog) |-> Body(Catalog[i])]
    /\ \E pre \in PreStates : InitRun(pre)

\* a call raised at the given step: the exception leaves main or enters its
\* except block
Raise(step, path) ==
    /\ failedStep' = step
    /\ failedPath' = path
    /\ pc' = Propagate(step)
    /\ status' = IF Propagate(step) = "exited" THEN ExitOnRaise ELSE status

NoRaise ==
    /\ failedStep' = failedStep
    /\ failedPath' = failedPath
    /\ status' = status

Cost(b) == IF b THEN 0 ELSE 1

\* the exception a call leaves with, and the log_error calls it made on the
\* way because a log append had failed
Threw(kind, reacted) ==
    /\ exc' = kind
    /\ errAfterLog' = errAfterLog + reacted

Calm == UNCHANGED <<exc, errAfterLog>>

\* what safe_write, make_executable and create_zip leave with: their try
\* covers the operation and the log_info call alike, and a failing log_error
\* replaces the exception it was reporting
Outcome(opOK, infoOK, errOK) ==
    IF opOK /\ infoOK THEN Calm
    ELSE Threw(IF opOK \/ ~errOK THEN "log" ELSE "op", IF opOK THEN 1 ELSE 0)

\* bookkeeping: the step entered, and whether a log_error append was lost
Did(step, lost) ==
    /\ steps' = steps \cup {step}
    /\ lostE' = lostE + lost



\* --------------------------------------------------------------- actions
\* main, step 1: log_info("Generating stack version ...")
Start ==
    /\ pc = "start"
    /\ \E ok \in BOOLEAN :
        /\ faults + Cost(ok) <= MaxFaults
        /\ faults' = faults + Cost(ok)
        /\ actionsLog' = IF ok
                         THEN AppendLog(actionsLog,
                                  InfoLine("Generating stack version", NoRef))
                         ELSE actionsLog
        /\ IF ok THEN pc' = "root" /\ NoRaise /\ Calm
           ELSE Raise(1, NoRef) /\ Threw("log", 0)
    /\ Did(1, 0)
    /\ UNCHANGED <<catalogBody, fsVars, errorsLog, printed, wi, chmodq, run,
                   startA, startE, ghostVars, fresh, prev>>

RootMessageSwapped(had) ==
    IF had THEN "Created stack root directory"
    ELSE "Target directory already exists"

\* the line of step 2: stack_root.exists() chooses the text
RootMessage(had) ==
    IF had THEN "Target directory already exists"
    ELSE "Created stack root directory"

\* main, step 2: the stack root is there or is made, and one line says which
EnsureRoot ==
    /\ pc = "root"
    /\ \E mkOK \in BOOLEAN, infoOK \in BOOLEAN :
        LET had == "root" \in dirs
            raised == ~mkOK \/ ~infoOK
        IN  /\ (had => mkOK)
            /\ (~mkOK => infoOK)
            /\ faults + Cost(mkOK) + Cost(infoOK) <= MaxFaults
            /\ faults' = faults + Cost(mkOK) + Cost(infoOK)
            /\ dirs' = IF mkOK THEN dirs \cup {"root"} ELSE dirs
            /\ actionsLog' =
                  IF mkOK /\ infoOK
                  THEN AppendLog(actionsLog,
                           InfoLine(RootMessage(had), RootRef))
                  ELSE actionsLog
            /\ IF raised
               THEN Raise(2, RootRef) /\ Threw(IF mkOK THEN "log" ELSE "op", 0)
               ELSE pc' = "write" /\ NoRaise /\ Calm
    /\ Did(2, 0)
    /\ UNCHANGED <<catalogBody, files, zip, errorsLog, printed, wi, chmodq,
                   run, startA, startE, ghostVars, fresh, prev>>

\* safe_write(path, content); o is what mkdir and write_text do:
\* "mkdir" and "open" fail before the file is touched, "partial" fails after
\* the open has truncated it
SafeWrite(path, content) ==
    \E o \in {"ok", "mkdir", "open", "partial"},
       infoOK \in BOOLEAN, errOK \in BOOLEAN :
        LET opOK == (o = "ok")
            raised == ~opOK \/ ~infoOK
            cost == Cost(opOK) + Cost(infoOK) + Cost(errOK)
        IN  /\ (~opOK => infoOK)
            /\ (~raised => errOK)
            /\ faults + cost <= MaxFaults
            /\ faults' = faults + cost
            /\ Did(3, Cost(errOK))
            /\ Outcome(opOK, infoOK, errOK)
            /\ dirs' = IF o = "mkdir" THEN dirs ELSE dirs \cup ParentDirs(path)
            /\ files' = CASE o = "ok" ->
                               WriteFile(files, path, WrittenText(content))
                          [] o = "partial" -> WriteFile(files, path, <<>>)
                          [] OTHER -> files
            /\ written' = IF o \in {"ok", "partial"}
                          THEN written \cup {path} ELSE written
            /\ returned' = IF raised THEN returned ELSE returned \cup {path}
            /\ actionsLog' =
                  IF opOK /\ infoOK
                  THEN AppendLog(actionsLog, InfoLine("Wrote file", path))
                  ELSE actionsLog
            /\ errorsLog' =
                  IF raised /\ errOK
                  THEN AppendLog(errorsLog, ErrorLine("Failed to write", path))
                  ELSE errorsLog
            /\ IF raised THEN Raise(3, path)
               ELSE /\ pc' = IF wi = Len(Catalog) THEN "glob" ELSE "write"
                    /\ NoRaise

\* main, step 3: the next call of create_stack_files
SafeWriteStep ==
    /\ pc = "write"
    /\ wi <= Len(Catalog)
    /\ SafeWrite(Catalog[wi], catalogBody[wi])
    /\ wi' = wi + 1
    /\ UNCHANGED <<catalogBody, zip, printed, chmodq, run, startA, startE,
                   chmodded, fresh, prev>>

\* main, step 4: the glob is listed; install.sh follows its matches
GlobScripts ==
    /\ pc = "glob"
    /\ \E backwards \in BOOLEAN :
        chmodq' = GlobList(files, backwards) \o <<InstallSh>>
    /\ pc' = "chmod"
    /\ steps' = steps \cup {4}
    /\ UNCHANGED <<catalogBody, fsVars, actionsLog, errorsLog, printed, wi,
                   status, run, faults, startA, startE, ghostVars, failedStep,
                   failedPath, lostE, exc, errAfterLog, fresh, prev>>

\* make_executable(path)
MakeExecutable(path) ==
    \E opOK \in BOOLEAN, infoOK \in BOOLEAN, errOK \in BOOLEAN :
        LET raised == ~opOK \/ ~infoOK
            cost == Cost(opOK) + Cost(infoOK) + Cost(errOK)
        IN  /\ (~opOK => infoOK)
            /\ (~raised => errOK)
            /\ faults + cost <= MaxFaults
            /\ faults' = faults + cost
            /\ Did(4, Cost(errOK))
            /\ Outcome(opOK, infoOK, errOK)
            /\ files' = IF opOK THEN SetMode(files, path) ELSE files
            /\ chmodded' = IF opOK THEN chmodded \cup {path} ELSE chmodded
            /\ actionsLog' =
                  IF opOK /\ infoOK
                  THEN AppendLog(actionsLog, InfoLine("Marked executable", path))
                  ELSE actionsLog
            /\ errorsLog' =
                  IF raised /\ errOK
                  THEN AppendLog(errorsLog,
                           ErrorLine("Failed to chmod +x", path))
                  ELSE errorsLog
            /\ IF raised THEN Raise(4, path)
               ELSE /\ pc' = IF Len(chmodq) = 1 THEN "mklogs" ELSE "chmod"
                    /\ NoRaise

\* main, step 4: the next make_executable call
MakeExecutableStep ==
    /\ pc = "chmod"
    /\ Len(chmodq) > 0
    /\ MakeExecutable(Head(chmodq))
    /\ chmodq' = Tail(chmodq)
    /\ UNCHANGED <<catalogBody, dirs, zip, printed, wi, run, startA, startE,
                   written, returned, fresh, prev>>

\* main, step 5: (stack_root / "logs").mkdir(parents=True, exist_ok=True)
MkLogs ==
    /\ pc = "mklogs"
    /\ \E ok \in BOOLEAN :
        /\ faults + Cost(ok) <= MaxFaults
        /\ faults' = faults + Cost(ok)
        /\ dirs' = IF ok THEN dirs \cup {"root", "logs"} ELSE dirs
        /\ IF ok THEN pc' = "zip" /\ NoRaise /\ Calm
           ELSE Raise(5, NoRef) /\ Threw("op", 0)
    /\ Did(5, 0)
    /\ UNCHANGED <<catalogBody, files, zip, actionsLog, errorsLog, printed, wi,
                   chmodq, run, startA, startE, ghostVars, fresh, prev>>

\* main, step 6: create_zip(stack_root); "open" fails before the archive is
\* touched, "partial" fails after ZipFile(zip_path, "w") has truncated it
CreateZip ==
    /\ pc = "zip"
    /\ \E o \in {"ok", "open", "partial"},
          infoOK \in BOOLEAN, errOK \in BOOLEAN :
        LET opOK == (o = "ok")
            raised == ~opOK \/ ~infoOK
            cost == Cost(opOK) + Cost(infoOK) + Cost(errOK)
        IN  /\ (~opOK => infoOK)
            /\ (~raised => errOK)
            /\ faults + cost <= MaxFaults
            /\ faults' = faults + cost
            /\ Did(6, Cost(errOK))
            /\ Outcome(opOK, infoOK, errOK)
            /\ zip' = CASE o = "ok" ->
                             [state |-> "valid", entries |-> ZipEntries(files)]
                        [] o = "partial" ->
                             [state |-> "partial", entries |-> NoEntries]
                        [] OTHER -> zip
            /\ actionsLog' =
                  IF opOK /\ infoOK
                  THEN AppendLog(actionsLog,
                           InfoLine("Created ZIP archive", ZipRef))
                  ELSE actionsLog
            /\ errorsLog' =
                  IF raised /\ errOK
                  THEN AppendLog(errorsLog,
                           ErrorLine("Failed to create zip", ZipRef))
                  ELSE errorsLog
            /\ IF raised THEN Raise(6, ZipRef)
               ELSE pc' = "complete" /\ NoRaise
    /\ UNCHANGED <<catalogBody, dirs, files, printed, wi, chmodq, run, startA,
                   startE, ghostVars, fresh, prev>>

CompletionLines ==
    << InfoLine("Stack files generation complete", NoRef),
       InfoLine("Root directory", RootRef),
       InfoLine("ZIP archive", ZipRef) >>

RECURSIVE AppendAll(_, _)
AppendAll(log, lines) ==
    IF Len(lines) = 0 THEN log
    ELSE AppendAll(AppendLog(log, Head(lines)), Tail(lines))

\* main, step 7: three log_info calls and the print; n of the appends succeed
Complete ==
    /\ pc = "complete"
    /\ \E n \in 0..Len(CompletionLines) :
        LET ok == (n = Len(CompletionLines))
        IN  /\ faults + Cost(ok) <= MaxFaults
            /\ faults' = faults + Cost(ok)
            /\ actionsLog' = AppendAll(actionsLog, SubSeq(CompletionLines, 1, n))
            /\ printed' = ok
            /\ IF ok
               THEN /\ pc' = "exited"
                    /\ status' = ExitOnReturn
                    /\ UNCHANGED <<failedStep, failedPath>>
                    /\ Calm
               ELSE Raise(7, NoRef) /\ Threw("log", 0)
    /\ Did(7, 0)
    /\ UNCHANGED <<catalogBody, fsVars, errorsLog, wi, chmodq, run, startA,
                   startE, ghostVars, fresh, prev>>

ExceptCleaningUp ==
    /\ pc = "except"
    /\ \E ok \in BOOLEAN :
        /\ faults + Cost(ok) <= MaxFaults
        /\ faults' = faults + Cost(ok)
        /\ errorsLog' =
              IF ok
              THEN AppendLog(errorsLog,
                       ErrorLine("Unhandled exception during stack generation",
                                 NoRef))
              ELSE errorsLog
        /\ lostE' = lostE + Cost(ok)
        /\ Threw(IF ok THEN exc ELSE "log", IF exc = "log" THEN 1 ELSE 0)
    /\ files' = [p \in DOMAIN files \ written |-> files[p]]
    /\ pc' = "exited"
    /\ status' = ExitOnRaise
    /\ UNCHANGED <<catalogBody, dirs, zip, actionsLog, printed, wi, chmodq,
                   run, startA, startE, ghostVars, failedStep, failedPath,
                   steps, fresh, prev>>

\* main, except Exception: log_error(traceback), raise
Except ==
    /\ pc = "except"
    /\ \E ok \in BOOLEAN :
        /\ faults + Cost(ok) <= MaxFaults
        /\ faults' = faults + Cost(ok)
        /\ errorsLog' =
              IF ok
              THEN AppendLog(errorsLog,
                       ErrorLine("Unhandled exception during stack generation",
                                 NoRef))
              ELSE errorsLog
        /\ lostE' = lostE + Cost(ok)
        /\ Threw(IF ok THEN exc ELSE "log", IF exc = "log" THEN 1 ELSE 0)
    /\ pc' = "exited"
    /\ status' = ExitOnRaise
    /\ UNCHANGED <<catalogBody, fsVars, actionsLog, printed, wi, chmodq, run,
                   startA, startE, ghostVars, failedStep, failedPath, steps,
                   fresh, prev>>

\* the generator is invoked again on what the last run left; a further run
\* is followed while as many failures remain as runs have been made
NewRun ==
    /\ pc = "exited"
    /\ run < MaxRuns
    /\ faults + run <= MaxFaults
    /\ run' = run + 1
    /\ pc' = "start"
    /\ wi' = 1
    /\ chmodq' = <<>>
    /\ status' = "running"
    /\ printed' = FALSE
    /\ startA' = Len(actionsLog)
    /\ startE' = Len(errorsLog)
    /\ written' = {}
    /\ returned' = {}
    /\ chmodded' = {}
    /\ failedStep' = 0
    /\ failedPath' = NoRef
    /\ steps' = {}
    /\ lostE' = 0
    /\ exc' = "none"
    /\ errAfterLog' = 0
    /\ fresh' = (dirs = {} /\ actionsLog = <<>> /\ errorsLog = <<>>
                   /\ zip.state = "absent")
    /\ prev' = [ok |-> (status = "zero"), files |-> files, dirs |-> dirs,
                lenA |-> Len(actionsLog), lenE |-> Len(errorsLog)]
    /\ UNCHANGED <<catalogBody, fsVars, actionsLog, errorsLog, faults>>

Next ==
    \/ Start
    \/ EnsureRoot
    \/ SafeWriteStep
    \/ GlobScripts
    \/ MakeExecutableStep
    \/ MkLogs
    \/ CreateZip
    \/ Complete
    \/ Except
    \/ NewRun

Spec == Init /\ [][Next]_vars


\* ------------------------------------------------- safe_write on any body
\* the longest run of blanks that every non-blank line starts with
CommonIndent(lines) ==
    LET nb == {lines[i] : i \in {j \in 1..Len(lines) : ~IsBlankLine(lines[j])}}
        prefixes == UNION {{SubSeq(l, 1, k) : k \in 0..Len(l)} : l \in nb}
        common == {m \in prefixes :
                      /\ IsBlankLine(m)
                      /\ \A l \in nb : StartsWith(l, m)}
    IN IF nb = {} THEN <<>>
       ELSE CHOOSE m \in common : \A o \in common : Len(o) <= Len(m)

\* a literal as create_stack_files writes them: text set at one indentation,
\* blank lines empty or, as the line of the closing quotes, that indentation
TemplateShaped(text) ==
    LET lines == Split(text)
    IN \A i \in 1..Len(lines) :
          IsBlankLine(lines[i]) =>
              lines[i] = <<>> \/ lines[i] = CommonIndent(lines)

Bodies == {text \in Strings(MaxLen) : TemplateShaped(text)}

\* a run that has passed steps 1 and 2 on a clean directory and is about to
\* emit a catalog whose entries carry the body under test
InitDedent ==
    /\ catalogBody \in {[i \in 1..Len(Catalog) |-> b] : b \in Bodies}
    /\ dirs = {"root"}
    /\ files = NoFiles
    /\ zip = NoZip
    /\ actionsLog = << InfoLine("Generating stack version", NoRef),
                       InfoLine("Created stack root directory", RootRef) >>
    /\ errorsLog = <<>>
    /\ printed = FALSE
    /\ pc = "write"
    /\ wi = 1
    /\ chmodq = <<>>
    /\ status = "running"
    /\ run = 1
    /\ faults = 0
    /\ startA = 0
    /\ startE = 0
    /\ written = {}
    /\ returned = {}
    /\ chmodded = {}
    /\ failedStep = 0
    /\ failedPath = NoRef
    /\ steps = {1, 2}
    /\ lostE = 0
    /\ exc = "none"
    /\ errAfterLog = 0
    /\ fresh = TRUE
    /\ prev = NoPrev

NextDedent == SafeWriteStep

SpecDedent == InitDedent /\ [][NextDedent]_vars

\* ---------------------------------------------------------------- claims
IndexOf(p) == CHOOSE i \in 1..Len(Catalog) : Catalog[i] = p

\* lines appended to a log since the run started
RunLines(log, start) == SubSeq(log, start + 1, Len(log))

Count(lines, Test(_)) == Len(SelectSeq(lines, Test))

\* the body with the common indentation taken off every line that has it
\* and the blank lines at its head dropped
RECURSIVE DropLeadingBlank(_)
DropLeadingBlank(lines) ==
    IF Len(lines) > 1 /\ IsBlankLine(Head(lines))
    THEN DropLeadingBlank(Tail(lines))
    ELSE lines

ExpectedText(body) ==
    LET lines == Split(body)
        m == CommonIndent(lines)
    IN Join(DropLeadingBlank(
           [i \in 1..Len(lines) |->
               IF StartsWith(lines[i], m) THEN DropN(lines[i], Len(m))
               ELSE lines[i]]))

\* C1: after safe_write has returned for an entry, the file holds the entry's
\* body without the indentation common to its non-blank lines and without
\* its leading blank lines, every other character as in the body.
C1_WriteReadBack ==
    \A p \in returned :
        /\ p \in DOMAIN files
        /\ files[p].content = ExpectedText(catalogBody[IndexOf(p)])

\* an entry with a leading blank line, an indented line and the indented
\* closing line has been written
C1_Witness ==
    /\ Catalog[1] \in returned
    /\ catalogBody[1] = <<NL, " ", "a", NL, " ">>
    /\ files[Catalog[1]].content = <<"a", NL>>


IsPrefix(s, t) == Len(s) <= Len(t) /\ SubSeq(t, 1, Len(s)) = s

Exited == pc = "exited"

\* INFO lines of this run that name the path
InfoRefs(p) ==
    Count(RunLines(actionsLog, startA),
          LAMBDA l : l.level = "INFO" /\ l.ref = p)

\* ERROR lines of this run that name the path
ErrorRefs(p) ==
    Count(RunLines(errorsLog, startE),
          LAMBDA l : l.level = "ERROR" /\ l.ref = p)

TracebackLines ==
    Count(RunLines(errorsLog, startE),
          LAMBDA l : l.level = "ERROR"
                       /\ l.msg = "Unhandled exception during stack generation")

CompletionCount ==
    Count(RunLines(actionsLog, startA),
          LAMBDA l : \E i \in 1..Len(CompletionLines) : l = CompletionLines[i])

\* this run succeeded and so did the run before it
SecondSuccess == Exited /\ status = "zero" /\ run > 1 /\ prev.ok

\* C2 as stated: after two successful runs in a row the tree below the stack
\* root is the one the first run left, and both log files are strictly longer.
C2_Original ==
    SecondSuccess =>
        /\ files = prev.files
        /\ dirs = prev.dirs
        /\ Len(actionsLog) > prev.lenA
        /\ Len(errorsLog) > prev.lenE

\* C2 amended: after two successful runs in a row the tree below the stack
\* root (paths, contents, modes) is the one the first run left, the actions
\* log is strictly longer, and the errors log has received no line.
C2_Idempotent ==
    SecondSuccess =>
        /\ files = prev.files
        /\ dirs = prev.dirs
        /\ Len(actionsLog) > prev.lenA
        /\ Len(errorsLog) = prev.lenE

\* two successful runs over a stack root that held files of its own
C2_Witness ==
    /\ SecondSuccess
    /\ ExtraSh \in DOMAIN files
    /\ files[InstallSh].content = WrittenText(Body(InstallSh))

\* C3 as stated: when a run ends, its actions log holds exactly one INFO
\* line naming each path that safe_write has written in the run.
C3_Original ==
    Exited => \A p \in returned : InfoRefs(p) = 1

\* C3 amended: a run's actions log holds exactly one "Wrote file" INFO line
\* for each path whose safe_write call returned and none for any other path;
\* the only other INFO line naming a file is the single "Marked executable"
\* line of a path make_executable was applied to.
C3_OneWroteLine ==
    LET lines == RunLines(actionsLog, startA)
        wrote == {i \in 1..Len(lines) : lines[i].msg = "Wrote file"}
        marked == {i \in 1..Len(lines) : lines[i].msg = "Marked executable"}
        named == {i \in 1..Len(lines) : lines[i].ref \in DOMAIN files}
    IN  /\ {lines[i].ref : i \in wrote} = returned
        /\ Cardinality(wrote) = Cardinality(returned)
        /\ {lines[i].ref : i \in marked} \subseteq chmodded
        /\ Cardinality(marked) = Cardinality({lines[i].ref : i \in marked})
        /\ named = wrote \cup marked
        /\ \A i \in named : lines[i].level = "INFO"

\* a successful run: every script is named by two INFO lines
C3_Witness ==
    /\ Exited
    /\ status = "zero"
    /\ returned = CatalogPaths
    /\ InfoRefs(InstallSh) = 2
    /\ InfoRefs(P("", "README", "md")) = 1

\* catalog entries up to and including the given path
UpTo(p) == {Catalog[i] : i \in 1..IndexOf(p)}

\* nothing of main beyond the failed safe_write call has run
StoppedAtWrite ==
    /\ pc \in {"except", "exited"}
    /\ steps \subseteq {1, 2, 3}
    /\ written \subseteq UpTo(failedPath)
    /\ returned = UpTo(failedPath) \ {failedPath}
    /\ chmodded = {}
    /\ CompletionCount = 0
    /\ ~printed

\* C4 as stated: a failure inside safe_write leaves exactly one ERROR line
\* naming the path in the errors log, ends the run with a non-zero status and
\* lets no further step run.
C4_Original ==
    failedStep = 3 =>
        /\ StoppedAtWrite
        /\ (Exited => status = "nonzero" /\ ErrorRefs(failedPath) = 1)

\* C4 amended: a failure inside safe_write leaves at most one ERROR line
\* naming the path in the errors log, exactly one when no append to the
\* errors log failed; the run ends with a non-zero status and no further
\* step runs.
C4_WriteFailure ==
    failedStep = 3 =>
        /\ StoppedAtWrite
        /\ ErrorRefs(failedPath) <= 1
        /\ (Exited => /\ status = "nonzero"
                      /\ (lostE = 0 => ErrorRefs(failedPath) = 1))

\* the fifth write failed after four had succeeded, and the run has ended
C4_Witness ==
    /\ failedStep = 3
    /\ failedPath = Catalog[5]
    /\ Exited
    /\ ErrorRefs(failedPath) = 1
    /\ TracebackLines = 1

\* create_zip has returned in this run
ZipReturned == pc = "complete" \/ 7 \in steps

C6_FreshRun ==
    (fresh /\ Exited /\ failedStep = 0) =>
        /\ DOMAIN files = CatalogPaths
        /\ Cardinality(DOMAIN files) = 13
        /\ Cardinality({p \in DOMAIN files : p.dir = "scripts"}) = 8
        /\ dirs = {"root", "scripts", "logs"}
        /\ \A p \in DOMAIN files : p.ext = "sh" => ExecBits \subseteq files[p].mode
        /\ Cardinality({p \in DOMAIN files : p.ext = "sh"}) = 9
        /\ zip.state = "valid"
        /\ errorsLog = <<>>
        /\ status = "zero"

\* a fresh run has ended without a failure
C6_Witness ==
    /\ fresh
    /\ Exited
    /\ failedStep = 0
    /\ run = 1
    /\ files[Catalog[1]].mode = DefaultMode \cup ExecBits

\* C7 as stated: a run that ends with a non-zero status has appended an ERROR
\* line with the traceback to the errors log, whichever of the steps 1 to 7
\* failed.
C7_Original ==
    (Exited /\ status = "nonzero") => TracebackLines >= 1

\* C8: once a step of a run has failed, the run changes no file, mode or
\* directory, does not touch the archive, appends no INFO line and prints
\* no summary.
C8_FailFast ==
    [][failedStep # 0 => UNCHANGED <<dirs, files, zip, actionsLog, printed>>]_vars

\* a run that failed in the middle of the catalog has ended
C8_Witness ==
    /\ failedStep = 3
    /\ Exited
    /\ written = UpTo(Catalog[4])
    /\ "logs" \notin dirs
    /\ zip.state = "absent"

\* steps 3 to 6 have all returned
EmittedAll == 7 \in steps

\* C9 as stated: the run exits zero with the completion messages and the
\* summary exactly when the writes, the chmod calls, the logs directory and
\* the archive all succeeded; a run with a failed step logs no completion
\* message and does not exit zero.
C9_Original ==
    Exited =>
        /\ (status = "zero" /\ printed /\ CompletionCount = 3) <=> EmittedAll
        /\ (failedStep # 0 => CompletionCount = 0 /\ status # "zero")

\* C9 amended: the run exits zero, with the three completion lines and the
\* summary, exactly when no step failed, the three log appends of step 7
\* included; a run in which one of the steps 1 to 6 failed logs no
\* completion line; a run that fails in step 7 exits non-zero without the
\* summary, having logged at most two of the completion lines.
C9_ExitZeroIffAllSucceeded ==
    Exited =>
        /\ (status = "zero") <=> (failedStep = 0)
        /\ status \in {"zero", "nonzero"}
        /\ (status = "zero" =>
               /\ printed
               /\ CompletionCount = 3
               /\ returned = CatalogPaths
               /\ {p \in DOMAIN files : p.ext = "sh"} \subseteq chmodded
               /\ "logs" \in dirs
               /\ zip.state = "valid")
        /\ (failedStep \in 1..6 => CompletionCount = 0 /\ ~printed)
        /\ (failedStep = 7 => CompletionCount <= 2 /\ ~printed)

\* a successful run, and before it a run that failed
C9_Witness ==
    /\ Exited
    /\ status = "zero"
    /\ run = 2
    /\ ~prev.ok
    /\ CompletionCount = 3

\* C10: every step of every run leaves the old content of each log file as
\* a prefix of the new content; the lines added to the actions log are INFO
\* lines and the lines added to the errors log are ERROR lines.
C10_AppendOnly ==
    [][ /\ IsPrefix(actionsLog, actionsLog')
        /\ IsPrefix(errorsLog, errorsLog')
        /\ \A i \in (Len(actionsLog) + 1)..Len(actionsLog') :
              actionsLog'[i].level = "INFO"
        /\ \A i \in (Len(errorsLog) + 1)..Len(errorsLog') :
              errorsLog'[i].level = "ERROR" ]_vars

\* both logs have grown in a first run and again in a second
C10_Witness ==
    /\ run = 2
    /\ startA > 0
    /\ startE > 0
    /\ Len(actionsLog) > startA
    /\ Len(errorsLog) > startE

\* ---------------------------------------------------------------- C11
\* a log append failed in this run: the exception on its way up is the
\* logging failure, or a log_error call lost its line
LogAppendFailed == exc = "log" \/ lostE > 0

\* C11 (as stated): a failing log append ends the run with a non-zero status,
\* and log_error is never called because a log append failed: not after a
\* log_info failure inside safe_write, make_executable or create_zip, and not
\* after a log_error failure.
C11_Original ==
    /\ (Exited /\ LogAppendFailed) => status = "nonzero"
    /\ errAfterLog = 0

\* ---------------------------------------------------------------- C12
\* the 9 generated shell scripts: the 8 under scripts/ and install.sh
GeneratedScripts == {p \in CatalogPaths : p.ext = "sh"}

\* the step changes the permission bits of the file at p
ModeChanged(p) ==
    /\ p \in DOMAIN files'
    /\ files'[p].mode # files[p].mode

\* C12 (as stated): whatever the stack root held before the run, a step
\* changes the permission bits of none but the 9 generated shell scripts.
C12_Original ==
    [][\A p \in DOMAIN files : ModeChanged(p) => p \in GeneratedScripts]_vars

\* C12 (amended): a step changes the permission bits only of install.sh and
\* of files named *.sh directly under scripts/, generated or found there,
\* and what it does to them is add the three execute bits; the bits of every
\* other file, generated or found, are left as they were.
C12_ChmodOnlyShellScripts ==
    [][\A p \in DOMAIN files :
          ModeChanged(p) =>
              /\ p = InstallSh \/ (p.dir = "scripts" /\ p.ext = "sh")
              /\ files'[p].mode = files[p].mode \cup ExecBits]_vars

C12_Witness ==
    /\ ExtraSh \in chmodded
    /\ files[ExtraSh].mode = DefaultMode \cup ExecBits
    /\ files[ExtraTxt].mode = DefaultMode
    /\ InstallSh \in chmodded

\* ---------------------------------------------------------------- C13
\* create_zip has been called in this run
ZipStarted == 6 \in steps

\* C13: when create_zip is called, safe_write has returned for all 13
\* catalog entries, every make_executable call has returned and the 9
\* generated scripts carry the execute bits, and the logs directory exists;
\* from the call of create_zip to the end of the run no file is written,
\* no mode is changed and no directory is made.
C13_ArchiveLast ==
    [][/\ ZipStarted' =>
            /\ returned' = CatalogPaths
            /\ GeneratedScripts \subseteq chmodded'
            /\ \A p \in GeneratedScripts : ExecBits \subseteq files'[p].mode
            /\ chmodq' = <<>>
            /\ "logs" \in dirs'
       /\ (pc = "zip" \/ ZipStarted) /\ run' = run =>
            UNCHANGED <<files, dirs>>]_vars

C13_Witness ==
    /\ ZipStarted
    /\ Exited
    /\ zip.state = "valid"
    /\ zip.entries = ZipEntries(files)
    /\ ExtraSh \in chmodded

\* ---------------------------------------------------------------- C14
\* step 2 returns in this step
RootStepReturns == pc = "root" /\ pc' = "write"

C15_NoRetryNoCleanup ==
    [][/\ DOMAIN files \subseteq DOMAIN files'
       /\ dirs \subseteq dirs'
       /\ (failedStep = 0 /\ failedStep' # 0) =>
            /\ \A p \in DOMAIN files \ {failedPath'} : files'[p] = files[p]
            /\ pc' \in {"except", "exited"}
       /\ (failedStep # 0 /\ run' = run) =>
            /\ UNCHANGED <<files, dirs, zip, wi, chmodq, failedStep,
                           failedPath, written, chmodded, returned>>
            /\ pc' = "exited"
      ]_vars

\* the run has stopped in the middle of the chmod loop
C15_Witness ==
    /\ Exited
    /\ failedStep = 4
    /\ written = CatalogPaths
    /\ \E p \in GeneratedScripts, q \in GeneratedScripts :
          /\ p \in chmodded
          /\ ExecBits \subseteq files[p].mode
          /\ q \notin chmodded

\* ---------------------------------------------------------------- C16
\* this run has logged 'Wrote file' for the path
SaidWrote(p) ==
    \E i \in (startA + 1)..Len(actionsLog) :
        actionsLog[i].msg = "Wrote file" /\ actionsLog[i].ref = p

\* this run has logged 'Failed to write' for the path
SaidFailed(p) ==
    \E i \in (startE + 1)..Len(errorsLog) :
        errorsLog[i].msg = "Failed to write" /\ errorsLog[i].ref = p

\* C16 (as stated): safe_write raises, and logs 'Failed to write', only for a
\* path whose content its call has not replaced; it returns, and logs 'Wrote
\* file', only for a path whose content its call has replaced; and no path
\* gets both the INFO line and the ERROR line in a run.
C16_Original ==
    /\ failedStep = 3 => failedPath \notin written
    /\ \A p \in CatalogPaths :
          /\ SaidFailed(p) => p \notin written
          /\ SaidWrote(p) => p \in written
          /\ ~(SaidWrote(p) /\ SaidFailed(p))
    /\ returned \subseteq written

====
